---- MODULE Spec2Model ----
(***************************************************************************)
(* Model of the eclairjs-node client: the SparkContext session             *)
(* (lib/SparkContext.js) and the variadic DataFrame builders cube, groupBy *)
(* and select (DataFrame.js).  Every handle is a pair (kernelP, refIdP) of *)
(* promises; the model follows each promise from pending to settled, the   *)
(* code each builder hands to kernel.execute, and the outcome the gateway  *)
(* reports for it.                                                         *)
(*                                                                         *)
(* kernel.js (genVariable, verifyAssign) and utils.js (processTemplate)    *)
(* are required by the sources but are not part of them; they are modelled *)
(* from the specification's sections 4.1, 4.2 and 4.4.                     *)
(***************************************************************************)
EXTENDS Integers, Sequences, FiniteSets, TLC

VARIABLES
    stage,      \* position of the SparkContext constructor's promise chain
    kernelP,    \* this.kernel: the session promise
    nIdle,      \* idle status messages seen by the context-creation handleMsg
    nCtx,       \* times the context-creation code was handed to k.execute
    otherP,     \* this.kernel of a second SparkContext of the same process
    varCounter, \* the name generator's process-wide counter
    ops         \* the builder calls made so far, in call order, each with
                \* what it gave back to its caller

vars == <<stage, kernelP, nIdle, nCtx, otherP, varCounter, ops>>

----------------------------------------------------------------------------
(* Bounds *)

MaxCalls == 3
MaxArgs == 2
MaxIdle == 2

(* Inputs *)

Names == {"a"}
Paths == {"f.txt"}
FailureMessages == {"ParseException: bad input", "expected id mismatch"}
URLError == "ECONNREFUSED"
Outcomes == {"ok"} \cup FailureMessages
MsgTypes == {"idle", "busy"}

Nil == ""

----------------------------------------------------------------------------
(* Promises *)

Pending == [state |-> "pending", value |-> Nil]
Resolved(v) == [state |-> "resolved", value |-> v]
Rejected(e) == [state |-> "rejected", value |-> e]

(* Arguments of a variadic call: a plain string or a handle (an object). *)
StrArg(s) == [t |-> "str", s |-> s, h |-> 0]
ColArg(h) == [t |-> "col", s |-> Nil, h |-> h]

(* The calls that made a handle of their own: a (kernelP, refIdP) pair. *)
Handles == {i \in 1..Len(ops) : ops[i].kind \in {"textFile", "variadic", "assign"}}

(* The calls that gave back the promise of a plain value. *)
Terminals == {i \in 1..Len(ops) : ops[i].kind = "terminal"}

ArgVals == {StrArg(s) : s \in Names} \cup {ColArg(h) : h \in Handles}

ArgLists == UNION {[1..n -> ArgVals] : n \in 0..MaxArgs}

----------------------------------------------------------------------------
(* kernel.js: the name generator *)

genVariable(kind) == kind \o ToString(varCounter + 1)

----------------------------------------------------------------------------
(* Values and code rendering *)

KernelObj == "kernel"
OtherKernelObj == "kernel2"
Undefined == "<undefined>"
ObjectString == "[object Object]"

Quote(s) == "\"" \o s \o "\""

(* String(arg) as '"'+arg+'"' computes it: a handle has no own toString. *)
ToStr(arg) == IF arg.t = "str" THEN arg.s ELSE ObjectString

(* if (values[2]) and Array.prototype.join: undefined renders as "". *)
Truthy(v) == v # Nil /\ v # Undefined

JoinElem(v) == IF v = Undefined THEN Nil ELSE v

RECURSIVE Join(_)
Join(seq) ==
    IF Len(seq) = 0 THEN Nil
    ELSE IF Len(seq) = 1 THEN JoinElem(seq[1])
    ELSE JoinElem(seq[1]) \o "," \o Join(Tail(seq))

TextFileCode(refId, path) ==
    "var " \o refId \o " = jsc.textFile(" \o Quote(path) \o ");"

VariadicCode(refId, inRefId, method, colIds) ==
    "var " \o refId \o " = " \o inRefId \o "." \o method \o "(" \o Join(colIds) \o ");"

----------------------------------------------------------------------------
(* The promises a variadic builder hands to Promise.all *)

KernelEntry(h) == [src |-> "kernel", h |-> h, v |-> Nil]
HandleEntry(h) == [src |-> "handle", h |-> h, v |-> Nil]
ValueEntry(v) == [src |-> "value", h |-> 0, v |-> v]

(* typeof args[0] === 'object' *)
FirstIsObject(args) == Len(args) > 0 /\ args[1].t = "col"

(* arg.refIdP: a handle's promise, undefined on a string *)
RefIdPOf(arg) == IF arg.t = "col" THEN HandleEntry(arg.h) ELSE ValueEntry(Undefined)

Promises(recv, args) ==
    <<KernelEntry(recv), HandleEntry(recv)>> \o
    [k \in 1..Len(args) |->
        IF FirstIsObject(args) THEN RefIdPOf(args[k])
        ELSE ValueEntry(Quote(ToStr(args[k])))]

(* A handle is new DataFrame(kernelP, refIdP) (or RDD, GroupedData) around the
   promise of the call that made it: this.kernelP and this.refIdP. *)
(* this.kernel of the SparkContext a handle descends from *)
KernelPOf(sc) == IF sc = 2 THEN otherP ELSE kernelP

(* Mutant: every handle is built around the first context's session. *)
DataFrame_FirstContext(h) == [kernelP |-> kernelP, refIdP |-> ops[h].p]

DataFrame(h) == [kernelP |-> KernelPOf(ops[h].sc), refIdP |-> ops[h].p]

EntryPromise(e) ==
    CASE e.src = "kernel" -> DataFrame(e.h).kernelP
      [] e.src = "handle" -> DataFrame(e.h).refIdP
      [] OTHER -> Resolved(e.v)

AllResolved(ps) == \A k \in 1..Len(ps) : EntryPromise(ps[k]).state = "resolved"

Values(ps) == [k \in 1..Len(ps) |-> EntryPromise(ps[k]).value]

(* Mutant: the loop over the resolved columns starts one position late. *)
ColIds_SkipFirst(values) ==
    IF Len(values) >= 3 /\ Truthy(values[3])
    THEN SubSeq(values, 4, Len(values))
    ELSE <<>>

(* resolved columns are in position 2 and above *)
ColIds(values) ==
    IF Len(values) >= 3 /\ Truthy(values[3])
    THEN SubSeq(values, 3, Len(values))
    ELSE <<>>

----------------------------------------------------------------------------
(* Builder calls *)

CanCall == Len(ops) < MaxCalls

ReturnHandle(h) == [kind |-> "handle", h |-> h, err |-> Nil]
Throw(e) == [kind |-> "throw", h |-> 0, err |-> e]

NewOp(kind, method, refId, recv, args, path) ==
    [kind |-> kind, method |-> method, refId |-> refId, recv |-> recv,
     args |-> args, path |-> path, phase |-> "waiting", p |-> Pending,
     code |-> Nil, inRefId |-> Nil, colIds |-> <<>>, nsub |-> 0,
     outcome |-> Nil, ret |-> ReturnHandle(Len(ops) + 1),
     sc |-> IF recv = 0 THEN 1 ELSE ops[recv].sc, kernel |-> Nil]

(* A call that made no handle of its own: it threw, or gave back `this`. *)
NoOp(method, recv, ret) ==
    [kind |-> "none", method |-> method, refId |-> Nil, recv |-> recv,
     args |-> <<>>, path |-> Nil, phase |-> "done", p |-> Pending,
     code |-> Nil, inRefId |-> Nil, colIds |-> <<>>, nsub |-> 0,
     outcome |-> Nil, ret |-> ret, sc |-> 0, kernel |-> Nil]

Init ==
    /\ stage = "url"
    /\ kernelP = Pending
    /\ nIdle = 0
    /\ nCtx = 0
    /\ otherP = Pending
    /\ varCounter = 0
    /\ ops = <<>>

UnchangedSession == UNCHANGED <<stage, kernelP, nIdle, nCtx, otherP>>

----------------------------------------------------------------------------
(* SparkContext constructor *)

GetURLResolve ==
    /\ stage = "url"
    /\ stage' = "start"
    /\ UNCHANGED <<kernelP, nIdle, nCtx, otherP, varCounter, ops>>

GetURLReject ==
    /\ stage = "url"
    /\ stage' = "failed"
    /\ kernelP' = Rejected(URLError)
    /\ UNCHANGED <<nIdle, nCtx, otherP, varCounter, ops>>

StartKernelResolve ==
    /\ stage = "start"
    /\ stage' = "info"
    /\ UNCHANGED <<kernelP, nIdle, nCtx, otherP, varCounter, ops>>

StartKernelReject ==
    /\ stage = "start"
    /\ stage' = "stuck"
    /\ UNCHANGED <<kernelP, nIdle, nCtx, otherP, varCounter, ops>>

KernelInfoResolve ==
    /\ stage = "info"
    /\ stage' = "exec"
    /\ nCtx' = nCtx + 1
    /\ UNCHANGED <<kernelP, nIdle, otherP, varCounter, ops>>

KernelInfoReject ==
    /\ stage = "info"
    /\ stage' = "stuck"
    /\ UNCHANGED <<kernelP, nIdle, nCtx, otherP, varCounter, ops>>

(* Mutant: the handler resolves on any message, whatever its type and
   execution state. *)
HandleMsg_AnyMessage(m) ==
    /\ stage = "exec"
    /\ IF m = "idle"
       THEN /\ nIdle < MaxIdle
            /\ nIdle' = nIdle + 1
       ELSE UNCHANGED nIdle
    /\ kernelP' = IF kernelP.state = "pending" THEN Resolved(KernelObj) ELSE kernelP
    /\ UNCHANGED <<stage, nCtx, otherP, varCounter, ops>>

HandleMsg(m) ==
    /\ stage = "exec"
    /\ IF m = "idle"
       THEN /\ nIdle < MaxIdle
            /\ nIdle' = nIdle + 1
            /\ kernelP' = IF kernelP.state = "pending"
                          THEN Resolved(KernelObj) ELSE kernelP
       ELSE UNCHANGED <<nIdle, kernelP>>
    /\ UNCHANGED <<stage, nCtx, otherP, varCounter, ops>>

----------------------------------------------------------------------------
(* SparkContext.prototype.textFile / parallelize *)

TextFile(path) ==
    /\ CanCall
    /\ LET refId == genVariable("rdd") IN
        /\ varCounter' = varCounter + 1
        /\ ops' = Append(ops, NewOp("textFile", "textFile", refId, 0, <<>>, path))
    /\ UnchangedSession

(* textFile of the second SparkContext: new RDD(this.kernel, ...) *)
OtherTextFile(path) ==
    /\ CanCall
    /\ LET refId == genVariable("rdd") IN
        /\ varCounter' = varCounter + 1
        /\ ops' = Append(ops, [NewOp("textFile", "textFile", refId, 0, <<>>, path)
                                EXCEPT !.sc = 2])
    /\ UnchangedSession

(* Mutant: a rejected textFile is submitted again. *)
TextFileThen_Again(i) ==
    /\ i \in Handles
    /\ ops[i].kind = "textFile"
    /\ ops[i].phase = "waiting" \/ ops[i].p.state = "rejected"
    /\ KernelPOf(ops[i].sc).state = "resolved"
    /\ ops' = [ops EXCEPT ![i].phase = "submitted",
                          ![i].code = TextFileCode(ops[i].refId, ops[i].path),
                          ![i].nsub = @ + 1,
                          ![i].kernel = KernelPOf(ops[i].sc).value]
    /\ UNCHANGED <<stage, kernelP, nIdle, nCtx, otherP, varCounter>>

TextFileThen(i) ==
    /\ i \in Handles
    /\ ops[i].kind = "textFile"
    /\ ops[i].phase = "waiting"
    /\ KernelPOf(ops[i].sc).state = "resolved"
    /\ ops' = [ops EXCEPT ![i].phase = "submitted",
                          ![i].code = TextFileCode(ops[i].refId, ops[i].path),
                          ![i].nsub = @ + 1,
                          ![i].kernel = KernelPOf(ops[i].sc).value]
    /\ UNCHANGED <<stage, kernelP, nIdle, nCtx, otherP, varCounter>>

(* var refId = kernel.genVariable(): no `kernel` is in scope there. *)
Parallelize ==
    /\ CanCall
    /\ ops' = Append(ops, NoOp("parallelize", 0,
                               Throw("ReferenceError: kernel is not defined")))
    /\ UNCHANGED <<stage, kernelP, nIdle, nCtx, otherP, varCounter>>

----------------------------------------------------------------------------
(* DataFrame.prototype.cube / groupBy / select *)

(* Mutant: the new handle reuses the receiver's identifier instead of a
   generated one. *)
VariadicCall_ReuseId(method, prefix, h, args) ==
    /\ CanCall
    /\ LET refId == ops[h].refId IN
        /\ varCounter' = varCounter + 1
        /\ ops' = Append(ops, NewOp("variadic", method, refId, h, args, Nil))
    /\ UnchangedSession

VariadicCall(method, prefix, h, args) ==
    /\ CanCall
    /\ LET refId == genVariable(prefix) IN
        /\ varCounter' = varCounter + 1
        /\ ops' = Append(ops, NewOp("variadic", method, refId, h, args, Nil))
    /\ UnchangedSession

Cube(h, args) ==
    /\ VariadicCall("cube", "groupedData", h, args)

GroupBy(h, args) ==
    /\ VariadicCall("groupBy", "groupedData", h, args)

Select(h, args) ==
    /\ IF Len(args) = 0
       THEN /\ CanCall
            /\ ops' = Append(ops, NoOp("select", h, ReturnHandle(h)))
            /\ UNCHANGED <<stage, kernelP, nIdle, nCtx, otherP, varCounter>>
       ELSE VariadicCall("select", "dataFrame", h, args)

(* Mutant: the continuation runs the receiver's code again to obtain its
   identifier. *)
VariadicThen_Resubmit(i, method) ==
    /\ i \in Handles
    /\ ops[i].kind = "variadic"
    /\ ops[i].method = method
    /\ ops[i].phase = "waiting"
    /\ LET ps == Promises(ops[i].recv, ops[i].args) IN
        /\ AllResolved(ps)
        /\ LET values == Values(ps)
               colIds == ColIds(values)
           IN ops' = [ops EXCEPT
                ![i].phase = "submitted",
                ![i].kernel = values[1],
                ![i].inRefId = values[2],
                ![i].colIds = colIds,
                ![i].code = VariadicCode(ops[i].refId, values[2], method, colIds),
                ![i].nsub = @ + 1,
                ![ops[i].recv].nsub = @ + 1]
    /\ UNCHANGED <<stage, kernelP, nIdle, nCtx, otherP, varCounter>>

(* Mutant: the continuation runs again after the handle has settled, and the
   new outcome settles the handle anew. *)
VariadicThen_Again(i, method) ==
    /\ i \in Handles
    /\ ops[i].kind = "variadic"
    /\ ops[i].method = method
    /\ ops[i].phase \in {"waiting", "done"}
    /\ LET ps == Promises(ops[i].recv, ops[i].args) IN
        /\ AllResolved(ps)
        /\ LET values == Values(ps)
               colIds == ColIds(values)
           IN ops' = [ops EXCEPT
                ![i].phase = "submitted",
                ![i].kernel = values[1],
                ![i].inRefId = values[2],
                ![i].colIds = colIds,
                ![i].code = VariadicCode(ops[i].refId, values[2], method, colIds),
                ![i].nsub = 1]
    /\ UNCHANGED <<stage, kernelP, nIdle, nCtx, otherP, varCounter>>

(* Promise.all(promises).then(function(values) {...}) *)
VariadicThen(i, method) ==
    /\ i \in Handles
    /\ ops[i].kind = "variadic"
    /\ ops[i].method = method
    /\ ops[i].phase = "waiting"
    /\ LET ps == Promises(ops[i].recv, ops[i].args) IN
        /\ AllResolved(ps)
        /\ LET values == Values(ps)
               colIds == ColIds(values)
           IN ops' = [ops EXCEPT
                ![i].phase = "submitted",
                ![i].kernel = values[1],
                ![i].inRefId = values[2],
                ![i].colIds = colIds,
                ![i].code = VariadicCode(ops[i].refId, values[2], method, colIds),
                ![i].nsub = @ + 1]
    /\ UNCHANGED <<stage, kernelP, nIdle, nCtx, otherP, varCounter>>

(* Mutant: the catch fires on the rejection of any handle of the session,
   awaited by this call or not. *)
VariadicCatch_AnyHandle(i, method) ==
    /\ i \in Handles
    /\ ops[i].kind = "variadic"
    /\ ops[i].method = method
    /\ ops[i].phase = "waiting"
    /\ \E h \in Handles :
            /\ ops[h].p.state = "rejected"
            /\ ops' = [ops EXCEPT ![i].phase = "done",
                                  ![i].p = Rejected(ops[h].p.value)]
    /\ UNCHANGED <<stage, kernelP, nIdle, nCtx, otherP, varCounter>>

(* Promise.all(promises) ... .catch(reject) *)
VariadicCatch(i, method) ==
    /\ i \in Handles
    /\ ops[i].kind = "variadic"
    /\ ops[i].method = method
    /\ ops[i].phase = "waiting"
    /\ LET ps == Promises(ops[i].recv, ops[i].args) IN
        \E k \in 1..Len(ps) :
            /\ EntryPromise(ps[k]).state = "rejected"
            /\ ops' = [ops EXCEPT ![i].phase = "done",
                                  ![i].p = Rejected(EntryPromise(ps[k]).value)]
    /\ UNCHANGED <<stage, kernelP, nIdle, nCtx, otherP, varCounter>>

CubeThen(i) == VariadicThen(i, "cube")
CubeCatch(i) == VariadicCatch(i, "cube")
GroupByThen(i) == VariadicThen(i, "groupBy")
GroupByCatch(i) == VariadicCatch(i, "groupBy")
SelectThen(i) == VariadicThen(i, "select")
SelectCatch(i) == VariadicCatch(i, "select")

----------------------------------------------------------------------------
(* kernel.js: the assignment verifier, fed the gateway's one outcome *)

(* Mutant: the receiver's identifier is passed as the expected binding. *)
ExpectedId_Receiver(i) == ops[i].inRefId

(* the refId argument of protocol.verifyAssign(...) *)
ExpectedId(i) == ops[i].refId

(* Mutant: resolve is passed for both callbacks. *)
OnFailure_Resolve(i, m) == Resolved(ops[i].refId)

(* the reject argument of protocol.verifyAssign(...) *)
OnFailure(i, m) == Rejected(m)

verifyAssign(i, o) ==
    /\ i \in Handles
    /\ ops[i].phase = "submitted"
    /\ ops' = [ops EXCEPT
            ![i].phase = "done",
            ![i].outcome = o,
            ![i].p = IF o = "ok" THEN Resolved(ExpectedId(i)) ELSE OnFailure(i, o)]
    /\ UNCHANGED <<stage, kernelP, nIdle, nCtx, otherP, varCounter>>

----------------------------------------------------------------------------
(* DataFrame.prototype.describe / dropDuplicates, through
   utils.js generateAssignment *)

(* dropDuplicates' colNames: an array of names, or not supplied *)
NotSupplied == [given |-> FALSE, names |-> <<>>]
Supplied(names) == [given |-> TRUE, names |-> names]
ColNames == {NotSupplied, Supplied(<<>>)} \cup {Supplied(<<n>>) : n \in Names}

(* describe's arguments, and those of the variadic builders next to it *)
NameLists == {<<>>} \cup {<<StrArg(n)>> : n \in Names}

Quoted(args) == [k \in 1..Len(args) |-> Quote(ToStr(args[k]))]

DescribeCode(refId, inRefId, args) ==
    "var " \o refId \o " = " \o inRefId \o ".describe(" \o Join(Quoted(args)) \o ");"

DropDuplicatesCode(refId, inRefId, args) ==
    IF Len(args) > 0
    THEN "var " \o refId \o " = " \o inRefId \o ".dropDuplicates([" \o Join(Quoted(args)) \o "]);"
    ELSE "var " \o refId \o " = " \o inRefId \o ".dropDuplicates([]);"

AssignmentCode(method, refId, inRefId, args) ==
    IF method = "describe" THEN DescribeCode(refId, inRefId, args)
    ELSE DropDuplicatesCode(refId, inRefId, args)

generateAssignment(method, h, args) ==
    /\ CanCall
    /\ LET refId == genVariable("dataFrame") IN
        /\ varCounter' = varCounter + 1
        /\ ops' = Append(ops, NewOp("assign", method, refId, h, args, Nil))
    /\ UnchangedSession

Describe(h, args) ==
    /\ generateAssignment("describe", h, args)

(* colNames.length is read whether or not colNames was supplied *)
DropDuplicates(h, colNames) ==
    /\ IF colNames.given
       THEN generateAssignment("dropDuplicates", h,
                               [k \in 1..Len(colNames.names) |-> StrArg(colNames.names[k])])
       ELSE /\ CanCall
            /\ ops' = Append(ops, NoOp("dropDuplicates", h,
                    Throw("TypeError: Cannot read property 'length' of undefined")))
            /\ UNCHANGED <<stage, kernelP, nIdle, nCtx, otherP, varCounter>>

AssignmentThen(i) ==
    /\ i \in Handles
    /\ ops[i].kind = "assign"
    /\ ops[i].phase = "waiting"
    /\ DataFrame(ops[i].recv).kernelP.state = "resolved"
    /\ DataFrame(ops[i].recv).refIdP.state = "resolved"
    /\ LET inRefId == DataFrame(ops[i].recv).refIdP.value IN
        ops' = [ops EXCEPT
            ![i].phase = "submitted",
            ![i].kernel = DataFrame(ops[i].recv).kernelP.value,
            ![i].inRefId = inRefId,
            ![i].code = AssignmentCode(ops[i].method, ops[i].refId, inRefId, ops[i].args),
            ![i].nsub = @ + 1]
    /\ UNCHANGED <<stage, kernelP, nIdle, nCtx, otherP, varCounter>>

AssignmentCatch(i) ==
    /\ i \in Handles
    /\ ops[i].kind = "assign"
    /\ ops[i].phase = "waiting"
    /\ \E q \in {DataFrame(ops[i].recv).kernelP, DataFrame(ops[i].recv).refIdP} :
            /\ q.state = "rejected"
            /\ ops' = [ops EXCEPT ![i].phase = "done", ![i].p = Rejected(q.value)]
    /\ UNCHANGED <<stage, kernelP, nIdle, nCtx, otherP, varCounter>>

----------------------------------------------------------------------------
(* DataFrame.prototype.collect / columns / count / dtypes / take, through
   utils.js generateResultPromise *)

(* Payloads of a successful outcome: the printed text of the result. *)
IntText == "3"
NamesText == "[\"a\"]"
PairsText == "[[\"a\",\"StringType\"]]"
RowsText == "[{\"values\":[1]}]"
ObjectText == "{\"error\":1}"
NoJsonText == "undefined"
Payloads == {IntText, NamesText, PairsText, RowsText, ObjectText, NoJsonText}

Nums == {1}

(* Decoded values, named by their shape. *)
IntValue == "Number 3"
NaN == "NaN"
NamesValue == "Array of String"
PairsValue == "Array of [String, String]"
RowsValue == "Array of {values}"
ObjectValue == "Object"
RowArray == "Array of Row"
NoRows == "Array of Row, empty"

SyntaxError == "Unexpected token u in JSON at position 0"
ParseError(message) == "Parse Error: " \o message

(* JSON.parse(result): the value, or the SyntaxError it throws *)
JSONParse(result) ==
    CASE result = IntText -> [threw |-> FALSE, value |-> IntValue]
      [] result = NamesText -> [threw |-> FALSE, value |-> NamesValue]
      [] result = PairsText -> [threw |-> FALSE, value |-> PairsValue]
      [] result = RowsText -> [threw |-> FALSE, value |-> RowsValue]
      [] result = ObjectText -> [threw |-> FALSE, value |-> ObjectValue]
      [] OTHER -> [threw |-> TRUE, value |-> SyntaxError]

(* parseInt(result): the leading integer of the text, else NaN *)
ParseInt(result) == IF result = IntText THEN IntValue ELSE NaN

IsArray(value) == value \in {NamesValue, PairsValue, RowsValue}

(* try { resolve(JSON.parse(result)) } catch (e) { reject(new Error(...)) } *)
ResolveParsed(result) ==
    IF JSONParse(result).threw
    THEN Rejected(ParseError(JSONParse(result).value))
    ELSE Resolved(JSONParse(result).value)

RowError == "Cannot read property of undefined"

(* collect's _resolve: a Row per element of an array, no Row otherwise.
   RowFactory.create(rowData.values) of an element that is no row either
   makes a Row of what it is given or throws inside the try. *)
CollectResolve(result) ==
    IF JSONParse(result).threw
    THEN {Rejected(ParseError(JSONParse(result).value))}
    ELSE IF JSONParse(result).value = RowsValue THEN {Resolved(RowArray)}
    ELSE IF IsArray(JSONParse(result).value)
         THEN {Resolved(RowArray), Rejected(ParseError(RowError))}
    ELSE {Resolved(NoRows)}

CountResolve(result) == {Resolved(ParseInt(result))}

ResultOf(method, result) ==
    CASE method = "collect" -> CollectResolve(result)
      [] method = "count" -> CountResolve(result)
      [] OTHER -> {ResolveParsed(result)}

ResultCode(method, inRefId, num) ==
    CASE method = "collect" -> "JSON.stringify(" \o inRefId \o ".collect());"
      [] method = "columns" -> "JSON.stringify(" \o inRefId \o ".columns());"
      [] method = "count" -> inRefId \o ".count();"
      [] method = "dtypes" -> "JSON.stringify(" \o inRefId \o ".dtypes());"
      [] OTHER -> "JSON.stringify(" \o inRefId \o ".take(" \o num \o "));"

ReturnPromise(i) == [kind |-> "promise", h |-> i, err |-> Nil]

generateResultPromise(method, h, num) ==
    /\ CanCall
    /\ ops' = Append(ops, [NewOp("terminal", method, Nil, h, <<>>, Nil)
                            EXCEPT !.ret = ReturnPromise(Len(ops) + 1),
                                   !.path = num])
    /\ UNCHANGED <<stage, kernelP, nIdle, nCtx, otherP, varCounter>>

Collect(h) == generateResultPromise("collect", h, Nil)
Columns(h) == generateResultPromise("columns", h, Nil)
Count(h) == generateResultPromise("count", h, Nil)
Dtypes(h) == generateResultPromise("dtypes", h, Nil)
Take(h, num) == generateResultPromise("take", h, ToString(num))

ResultThen(i) ==
    /\ i \in Terminals
    /\ ops[i].phase = "waiting"
    /\ DataFrame(ops[i].recv).kernelP.state = "resolved"
    /\ DataFrame(ops[i].recv).refIdP.state = "resolved"
    /\ LET inRefId == DataFrame(ops[i].recv).refIdP.value IN
        ops' = [ops EXCEPT
            ![i].phase = "submitted",
            ![i].kernel = DataFrame(ops[i].recv).kernelP.value,
            ![i].inRefId = inRefId,
            ![i].code = ResultCode(ops[i].method, inRefId, ops[i].path),
            ![i].nsub = @ + 1]
    /\ UNCHANGED <<stage, kernelP, nIdle, nCtx, otherP, varCounter>>

ResultCatch(i) ==
    /\ i \in Terminals
    /\ ops[i].phase = "waiting"
    /\ \E q \in {DataFrame(ops[i].recv).kernelP, DataFrame(ops[i].recv).refIdP} :
            /\ q.state = "rejected"
            /\ ops' = [ops EXCEPT ![i].phase = "done", ![i].p = Rejected(q.value)]
    /\ UNCHANGED <<stage, kernelP, nIdle, nCtx, otherP, varCounter>>

(* the gateway's one outcome of a query: a payload or a failure message *)
ResultOutcome(i, o) ==
    /\ i \in Terminals
    /\ ops[i].phase = "submitted"
    /\ \E r \in (IF o \in FailureMessages THEN {Rejected(o)}
                 ELSE ResultOf(ops[i].method, o)) :
            ops' = [ops EXCEPT ![i].phase = "done", ![i].outcome = o, ![i].p = r]
    /\ UNCHANGED <<stage, kernelP, nIdle, nCtx, otherP, varCounter>>

----------------------------------------------------------------------------
(* A second SparkContext: its constructor, by its end *)

(* resolve(k), k being the kernel started for this context *)
OtherContextReady ==
    /\ otherP = Pending
    /\ otherP' = Resolved(OtherKernelObj)
    /\ UNCHANGED <<stage, kernelP, nIdle, nCtx, varCounter, ops>>

(* .catch(reject) *)
OtherContextFailed ==
    /\ otherP = Pending
    /\ otherP' = Rejected(URLError)
    /\ UNCHANGED <<stage, kernelP, nIdle, nCtx, varCounter, ops>>

----------------------------------------------------------------------------

SessionStep ==
    \/ GetURLResolve
    \/ GetURLReject
    \/ StartKernelResolve
    \/ StartKernelReject
    \/ KernelInfoResolve
    \/ KernelInfoReject
    \/ \E m \in MsgTypes : HandleMsg(m)

CallStep ==
    \/ CanCall /\ \E path \in Paths : TextFile(path)
    \/ CanCall /\ Parallelize
    \/ CanCall /\ \E h \in Handles : \E args \in ArgLists : Cube(h, args)
    \/ CanCall /\ \E h \in Handles : \E args \in ArgLists : GroupBy(h, args)
    \/ CanCall /\ \E h \in Handles : \E args \in ArgLists : Select(h, args)

ContinuationStep ==
    \/ \E i \in Handles : TextFileThen(i)
    \/ \E i \in Handles : CubeThen(i)
    \/ \E i \in Handles : CubeCatch(i)
    \/ \E i \in Handles : GroupByThen(i)
    \/ \E i \in Handles : GroupByCatch(i)
    \/ \E i \in Handles : SelectThen(i)
    \/ \E i \in Handles : SelectCatch(i)

GatewayStep == \E i \in Handles, o \in Outcomes : verifyAssign(i, o)

Next == SessionStep \/ CallStep \/ ContinuationStep \/ GatewayStep

Spec == Init /\ [][Next]_vars

(* The DataFrame operations built on utils.js, next to the variadic ones,
   with at most one name per call. *)
DataFrameCallStep ==
    \/ CanCall /\ \E path \in Paths : TextFile(path)
    \/ CanCall /\ \E h \in Handles : \E args \in NameLists : Cube(h, args)
    \/ CanCall /\ \E h \in Handles : \E args \in NameLists : GroupBy(h, args)
    \/ CanCall /\ \E h \in Handles : \E args \in NameLists : Select(h, args)
    \/ CanCall /\ \E h \in Handles : \E args \in NameLists : Describe(h, args)
    \/ CanCall /\ \E h \in Handles : \E colNames \in ColNames : DropDuplicates(h, colNames)
    \/ CanCall /\ \E h \in Handles : Collect(h)
    \/ CanCall /\ \E h \in Handles : Columns(h)
    \/ CanCall /\ \E h \in Handles : Count(h)
    \/ CanCall /\ \E h \in Handles : Dtypes(h)
    \/ CanCall /\ \E h \in Handles : \E num \in Nums : Take(h, num)

DataFrameContinuationStep ==
    \/ ContinuationStep
    \/ \E i \in Handles : AssignmentThen(i)
    \/ \E i \in Handles : AssignmentCatch(i)
    \/ \E i \in Terminals : ResultThen(i)
    \/ \E i \in Terminals : ResultCatch(i)

ResultStep == \E i \in Terminals, o \in Payloads \cup FailureMessages : ResultOutcome(i, o)

NextDF ==
    SessionStep \/ DataFrameCallStep \/ DataFrameContinuationStep \/ GatewayStep \/ ResultStep

SpecDF == Init /\ [][NextDF]_vars

(* Two SparkContexts in one process, the variadic builders taking at most
   one argument. *)
ShortArgLists == {<<>>} \cup {<<a>> : a \in ArgVals}

OtherSessionStep ==
    \/ OtherContextReady
    \/ OtherContextFailed

SessionsCallStep ==
    \/ CanCall /\ \E path \in Paths : TextFile(path)
    \/ CanCall /\ \E path \in Paths : OtherTextFile(path)
    \/ CanCall /\ \E h \in Handles : \E args \in ShortArgLists : Cube(h, args)
    \/ CanCall /\ \E h \in Handles : \E args \in ShortArgLists : GroupBy(h, args)
    \/ CanCall /\ \E h \in Handles : \E args \in ShortArgLists : Select(h, args)

NextSessions ==
    SessionStep \/ OtherSessionStep \/ SessionsCallStep \/ ContinuationStep \/ GatewayStep

SpecSessions == Init /\ [][NextSessions]_vars

----------------------------------------------------------------------------
(* Shared vocabulary of the properties *)

Submitted(i) == ops[i].nsub > 0

Settled(i) == ops[i].p.state # "pending"

ColHandles(i) == {ops[i].args[k].h : k \in {n \in 1..Len(ops[i].args) : ops[i].args[n].t = "col"}}

HasStr(args) == \E k \in 1..Len(args) : args[k].t = "str"
HasCol(args) == \E k \in 1..Len(args) : args[k].t = "col"
Mixed(args) == HasStr(args) /\ HasCol(args)

----------------------------------------------------------------------------
(* C1: the identifiers the name generator hands to the builder calls of one
   session are pairwise distinct, and no two submitted assignments bind the
   same identifier (their code differs). *)
C1_IdentifiersDistinct ==
    \A i \in Handles : \A j \in Handles :
        i # j =>
            /\ ops[i].refId # ops[j].refId
            /\ (Submitted(i) /\ Submitted(j) => ops[i].code # ops[j].code)

(* Three calls, two of them of the same builder, all submitted. *)
C1_Witness ==
    /\ Cardinality(Handles) = 3
    /\ \A i \in Handles : Submitted(i)
    /\ \E i \in Handles : \E j \in Handles :
        i # j /\ ops[i].kind = "variadic" /\ ops[i].method = ops[j].method

(* C2: code is submitted only once the session is ready and the receiver and
   every Column argument handle of the call have resolved, each after the
   gateway outcome of the submission that produces it. *)
C2_SubmitAfterInputs ==
    \A i \in Handles :
        Submitted(i) =>
            /\ kernelP.state = "resolved"
            /\ \A h \in (IF ops[i].recv = 0 THEN {} ELSE {ops[i].recv}) \cup ColHandles(i) :
                /\ ops[h].p.state = "resolved"
                /\ ops[h].outcome # Nil

(* C3: a cube, groupBy or select whose session, receiver or Column argument
   is rejected submits no code, and its own handle is rejected with an
   UpstreamDependencyFailure wrapping the original cause. *)
UpstreamDependencyFailure(cause) == "UpstreamDependencyFailure: " \o cause

RejectedInputs(i) ==
    (IF kernelP.state = "rejected" THEN {kernelP.value} ELSE {})
    \cup {ops[h].p.value : h \in {g \in {ops[i].recv} \cup ColHandles(i) :
                                    ops[g].p.state = "rejected"}}

C3_UpstreamFailureShortCircuits ==
    \A i \in Handles :
        (ops[i].kind = "variadic" /\ RejectedInputs(i) # {}) =>
            /\ ~Submitted(i)
            /\ ops[i].phase = "done" =>
                \E cause \in RejectedInputs(i) :
                    ops[i].p = Rejected(UpstreamDependencyFailure(cause))

(* C4: when the gateway's outcome for a submission carries no failure, the
   call's handle is resolved to the identifier generated for that call, and
   to no other call's identifier. *)
C4_SuccessResolvesToExpected ==
    \A i \in Handles :
        ops[i].outcome = "ok" =>
            /\ ops[i].p = Resolved(ops[i].refId)
            /\ \A j \in Handles \ {i} : ops[i].p.value # ops[j].refId

(* A success delivered while another submission is still in flight. *)
C4_Witness ==
    \E i \in Handles : \E j \in Handles :
        /\ i # j
        /\ ops[i].outcome = "ok"
        /\ ops[i].kind = "variadic"
        /\ ops[j].phase = "submitted"

(* C5: when the gateway's outcome signals failure with message M, the call's
   handle is rejected with M and is not resolved. *)
C5_FailureRejectsWithMessage ==
    \A i \in Handles :
        ops[i].outcome \in FailureMessages =>
            /\ ops[i].p.state = "rejected"
            /\ ops[i].p.value = ops[i].outcome

(* A groupBy and a textFile that failed with different messages. *)
C5_Witness ==
    \E i \in Handles : \E j \in Handles :
        /\ ops[i].method = "groupBy"
        /\ ops[j].method = "textFile"
        /\ ops[i].outcome \in FailureMessages
        /\ ops[j].outcome \in FailureMessages
        /\ ops[i].outcome # ops[j].outcome

(* C6: once the session has become ready or has failed and every submission
   has had its outcome, no handle a builder returned is still pending. *)
Quiescent ==
    /\ kernelP.state # "pending"
    /\ ~ENABLED (ContinuationStep \/ GatewayStep)

C6_EveryHandleSettles ==
    Quiescent => \A i \in Handles : Settled(i)

(* C7: a dependent's code names the identifier its input handle resolved
   to, the same for every dependent, and the input's own code has been
   submitted exactly once. *)
AwaitedHandles(i) ==
    {ops[i].recv} \cup (IF FirstIsObject(ops[i].args) THEN ColHandles(i) ELSE {})

C7_ResolvedOnceSameForAll ==
    \A j \in Handles :
        (ops[j].kind = "variadic" /\ Submitted(j)) =>
            /\ ops[j].inRefId = ops[ops[j].recv].refId
            /\ \A h \in AwaitedHandles(j) :
                /\ ops[h].p = Resolved(ops[h].refId)
                /\ ops[h].nsub = 1
            /\ FirstIsObject(ops[j].args) =>
                \A k \in 1..Len(ops[j].args) :
                    ops[j].args[k].t = "col" =>
                        ops[j].colIds[k] = ops[ops[j].args[k].h].refId

(* One resolved handle consumed by two submitted dependents, by one of them
   as a Column argument. *)
C7_Witness ==
    \E h \in Handles : \E j1 \in Handles : \E j2 \in Handles :
        /\ j1 # j2
        /\ Submitted(j1) /\ Submitted(j2)
        /\ ops[j1].kind = "variadic" /\ ops[j2].kind = "variadic"
        /\ ops[j1].recv = h
        /\ FirstIsObject(ops[j2].args) /\ h \in ColHandles(j2)

(* C8: a handle is rejected only by the failure outcome of its own submission
   or by the rejection of the session or of a handle it awaits, and a ready
   session stays ready whatever the outcomes of the submissions. *)
OwnFailure(i) == ops[i].outcome \in FailureMessages /\ ops[i].p.value = ops[i].outcome

UpstreamFailure(i) ==
    /\ ops[i].kind = "variadic"
    /\ \/ kernelP = Rejected(ops[i].p.value)
       \/ \E h \in AwaitedHandles(i) : ops[h].p = Rejected(ops[i].p.value)

C8_FailureIsolated ==
    /\ [](\A i \in Handles :
            ops[i].p.state = "rejected" => OwnFailure(i) \/ UpstreamFailure(i))
    /\ [][kernelP.state = "resolved" => kernelP' = kernelP]_vars

(* A submission failed, and an independent call made on the same session
   resolved with the session still ready. *)
C8_Witness ==
    \E i \in Handles : \E j \in Handles :
        /\ i < j
        /\ OwnFailure(i)
        /\ ops[j].kind = "variadic"
        /\ i \notin AwaitedHandles(j) \cup ColHandles(j)
        /\ ops[j].p.state = "resolved"
        /\ kernelP.state = "resolved"

(* C9: a cube, groupBy or select call that mixes Column handles and plain
   strings fails before any code is submitted: its code never reaches the
   gateway and its handle never resolves. *)
C9_MixedArgumentsFailFast ==
    \A i \in Handles :
        (ops[i].kind = "variadic" /\ Mixed(ops[i].args)) =>
            /\ ~Submitted(i)
            /\ ops[i].p.state # "resolved"

(* C10: every builder call gives a handle back to its caller in the call
   step, and no code is submitted in that step. *)
C10_CallReturnsHandle ==
    [][CallStep =>
        /\ ops'[Len(ops')].ret.kind = "handle"
        /\ ops'[Len(ops')].nsub = 0
        /\ \A i \in 1..Len(ops) : ops'[i] = ops[i]]_vars

(* C11: parallelize gives an RDD handle back for any array, with an
   identifier of its own under which one jsc.parallelize assignment is
   submitted. *)
C11_ParallelizeReturnsRDD ==
    \A i \in 1..Len(ops) :
        ops[i].method = "parallelize" =>
            /\ ops[i].ret.kind = "handle"
            /\ i \in Handles
            /\ ops[i].refId # Nil

(* C15: no call's code is submitted more than once, and after a failure
   outcome nothing about the call changes any more: no new submission, and
   its handle stays rejected. *)
C15_NoRetry ==
    [][\A i \in Handles :
        /\ ops'[i].nsub <= 1
        /\ ops[i].outcome \in FailureMessages => ops'[i] = ops[i]]_vars

(* A failed call, and the same call made again as a new operation with a new
   identifier, submitted. *)
C15_Witness ==
    \E i \in Handles : \E j \in Handles :
        /\ i < j
        /\ OwnFailure(i)
        /\ ops[i].nsub = 1
        /\ ops[j].method = ops[i].method
        /\ ops[j].recv = ops[i].recv
        /\ ops[j].args = ops[i].args
        /\ ops[j].refId # ops[i].refId
        /\ Submitted(j)

(* C16: a handle leaves pending at most once, either by the gateway outcome
   of its own submission (to its own identifier, or to the failure) or by the
   rejection of the session or of a handle it awaits; resolved and rejected
   are final. *)
SettledByOutcome(i) ==
    /\ ops[i].phase = "submitted"
    /\ ops[i].outcome = Nil
    /\ ops'[i].outcome # Nil
    /\ ops'[i].p = IF ops'[i].outcome = "ok"
                   THEN Resolved(ops[i].refId)
                   ELSE Rejected(ops'[i].outcome)

SettledByUpstream(i) ==
    /\ ops[i].phase = "waiting"
    /\ ops[i].kind = "variadic"
    /\ ops'[i].p.state = "rejected"
    /\ \/ kernelP = ops'[i].p
       \/ \E h \in AwaitedHandles(i) : ops[h].p = ops'[i].p

C16_HandleStateMachine ==
    [][\A i \in Handles :
        /\ ops[i].p.state # "pending" => ops'[i].p = ops[i].p
        /\ ops'[i].p # ops[i].p => SettledByOutcome(i) \/ SettledByUpstream(i)]_vars

(* One handle bound, one failed by its own outcome, one failed by the
   failure of the handle it awaits. *)
C16_Witness ==
    \E i \in Handles : \E j \in Handles : \E k \in Handles :
        /\ ops[i].p = Resolved(ops[i].refId)
        /\ OwnFailure(j)
        /\ ops[k].recv = j
        /\ ops[k].p = ops[j].p
        /\ ops[k].outcome = Nil

(* C19: a cube, groupBy or select with one or more arguments of one kind
   submits exactly var <refId> = <receiverId>.<method>(a1,...,an); with the
   arguments in call order, strings double-quoted and Columns by their
   identifiers. *)
ExpectedArg(a) == IF a.t = "str" THEN "\"" \o a.s \o "\"" ELSE ops[a.h].refId

RECURSIVE CommaList(_)
CommaList(args) ==
    IF Len(args) = 1 THEN ExpectedArg(args[1])
    ELSE ExpectedArg(args[1]) \o "," \o CommaList(Tail(args))

C19_ArgumentsRenderedInOrder ==
    \A i \in Handles :
        (/\ ops[i].kind = "variadic"
         /\ Submitted(i)
         /\ Len(ops[i].args) >= 1
         /\ ~Mixed(ops[i].args)) =>
            ops[i].code = "var " \o ops[i].refId \o " = " \o ops[ops[i].recv].refId
                          \o "." \o ops[i].method
                          \o "(" \o CommaList(ops[i].args) \o ");"

(* Submitted with two different Columns, the later-made one first. *)
C19_Witness ==
    \E i \in Handles :
        /\ ops[i].kind = "variadic"
        /\ Submitted(i)
        /\ Len(ops[i].args) = 2
        /\ ops[i].args[1].t = "col" /\ ops[i].args[2].t = "col"
        /\ ops[i].args[1].h > ops[i].args[2].h

(* C17: the session starts connecting; it is ready only once kernel info has
   arrived, the context-creation code has been executed and an idle status
   has been reported for it; that code is executed once; and once ready the
   session stays as it is, whatever further idle messages arrive. *)
C17_SessionReadyOnce ==
    /\ [](kernelP.state = "resolved" =>
            stage = "exec" /\ nIdle >= 1 /\ kernelP.value = KernelObj)
    /\ [](nCtx = IF stage = "exec" THEN 1 ELSE 0)
    /\ [][kernelP.state = "resolved" => kernelP' = kernelP]_vars

(* Ready, with a second idle status delivered after the one that made it so. *)
C17_Witness ==
    /\ kernelP = Resolved(KernelObj)
    /\ nIdle = 2
    /\ nCtx = 1

(* C18: when session establishment fails at any stage the kernel promise is
   rejected, and then every call waiting on the session is rejected with no
   code submitted. *)
C18_EstablishmentFailureRejects ==
    /\ stage \in {"failed", "stuck"} => kernelP.state = "rejected"
    /\ (kernelP.state = "rejected" /\ ~ENABLED ContinuationStep) =>
            \A i \in Handles : ops[i].p.state = "rejected" /\ ~Submitted(i)

(* C12: a terminal operation whose successful outcome carries a payload that
   does not decode into the shape the operation promises (rows for collect
   and take, names for columns, name/type pairs for dtypes, an integer for
   count) is rejected with a parse error, which no remote failure message
   equals; it is never resolved with a value of another shape. *)
ExpectedPayload(method) ==
    CASE method \in {"collect", "take"} -> RowsText
      [] method = "columns" -> NamesText
      [] method = "dtypes" -> PairsText
      [] OTHER -> IntText

ExpectedValues(method) ==
    CASE method = "collect" -> {RowArray}
      [] method = "take" -> {RowsValue}
      [] method = "columns" -> {NamesValue}
      [] method = "dtypes" -> {PairsValue}
      [] OTHER -> {IntValue}

ParseErrors == {ParseError(SyntaxError), ParseError(RowError)}

C12_UndecodablePayloadRejected ==
    \A i \in Terminals :
        ops[i].outcome \in Payloads =>
            /\ ops[i].outcome # ExpectedPayload(ops[i].method) =>
                    /\ ops[i].p.state = "rejected"
                    /\ ops[i].p.value \in ParseErrors \ FailureMessages
            /\ ops[i].p.state = "resolved" =>
                    ops[i].p.value \in ExpectedValues(ops[i].method)

(* C13: dropDuplicates with no columns, colNames empty or not supplied,
   returns a handle of its own and the code it submits is the receiver's
   dropDuplicates([]). *)
C13_DropDuplicatesNoColumns ==
    \A i \in 1..Len(ops) :
        (ops[i].method = "dropDuplicates" /\ ops[i].args = <<>>) =>
            /\ i \in Handles
            /\ ops[i].ret = ReturnHandle(i)
            /\ Submitted(i) =>
                ops[i].code = "var " \o ops[i].refId \o " = "
                                \o ops[ops[i].recv].refId \o ".dropDuplicates([]);"

(* C14: select, groupBy, cube and describe called with no argument make a
   new identifier, return a new handle bound to it, and the code they submit
   is the call with an empty argument list. *)
C14_ZeroArgumentsStillSubmit ==
    \A i \in 1..Len(ops) :
        (ops[i].method \in {"select", "groupBy", "cube", "describe"} /\ ops[i].args = <<>>) =>
            /\ i \in Handles
            /\ ops[i].refId # Nil
            /\ ops[i].ret = ReturnHandle(i)
            /\ \A j \in Handles : j # i => ops[j].refId # ops[i].refId
            /\ Submitted(i) =>
                ops[i].code = "var " \o ops[i].refId \o " = "
                                \o ops[ops[i].recv].refId \o "." \o ops[i].method \o "();"

(* C20: a handle carries the session of the receiver it was derived from,
   hence that of the textFile call at the root of its chain, and its code is
   executed on the kernel of that session and no other. *)
RECURSIVE Root(_)
Root(i) == IF ops[i].recv = 0 THEN i ELSE Root(ops[i].recv)

KernelOf(sc) == IF sc = 2 THEN OtherKernelObj ELSE KernelObj

C20_HandleKeepsSession ==
    \A i \in Handles :
        /\ ops[i].sc \in {1, 2}
        /\ ops[i].recv # 0 => DataFrame(i).kernelP = DataFrame(ops[i].recv).kernelP
        /\ ops[i].sc = ops[Root(i)].sc
        /\ Submitted(i) =>
            /\ ops[i].kernel = KernelOf(ops[i].sc)
            /\ KernelPOf(ops[i].sc) = Resolved(ops[i].kernel)

(* A call on a handle of the second context, with a Column of the first as
   its argument, submitted; a call of the first context submitted as well. *)
C20_Witness ==
    \E i \in Handles :
        /\ ops[i].kind = "variadic"
        /\ ops[i].sc = 2
        /\ Submitted(i)
        /\ \E h \in ColHandles(i) : ops[h].sc = 1 /\ Submitted(h)

====
